---- MODULE Spec2Model ----
\* Model of Backtest (src/backtester.py): construction with a data table,
\* run(capital, start_timestamp, end_timestamp) with the on_init / on_bar
\* hooks calling trade(symbol, qty), and the history / valuation assembly.
EXTENDS Integers, Naturals, Sequences, FiniteSets, TLC

\* ---------------------------------------------------------------- bounds
NumTimestamps == 4
MaxTrades == 2

\* ---------------------------------------------------------------- data
\* Timestamps of the data table are 0 .. NumTimestamps-1 (the unique
\* level-0 values of the (timestamp, symbol) index, ascending).
Timestamps == 0 .. NumTimestamps - 1
Symbols == {"X", "Y"}
Quantities == {-1, 0, 5}
Capital == 1000

\* open / close columns of the data table
Open(t, s) == IF s = "X" THEN 10 + t ELSE 20 + 2 * t
Close(t, s) == IF s = "X" THEN 10 + t ELSE 21 + 2 * t

\* Data tables: X has a row at every timestamp (so every timestamp is in
\* the index), Y at any subset of the timestamps.
DataTables == { ({<<t, "X">> : t \in Timestamps} \cup {<<t, "Y">> : t \in Y}) :
                  Y \in SUBSET Timestamps }

\* self.timestamps[i] with Python's negative indexing
PyIdx(i) == IF i < 0 THEN i + NumTimestamps ELSE i

\* self.data.loc[ts]: the symbols with a row at ts
RowsAt(p, t) == { s \in Symbols : <<t, s>> \in p }

\* .sum(axis=1) over the terms of a row (f maps each term to its value)
RECURSIVE SumSet(_, _)
SumSet(S, f) == IF S = {} THEN 0
                ELSE LET x == CHOOSE y \in S : TRUE
                     IN f[x] + SumSet(S \ {x}, f)

VARIABLES present, pc, runS, runE, cash, posKeys, posVal, tsDict,
          posHist, cashHist, tradeLog, idx, barTs, currentTs,
          barCalls, execLog, rowTrades, cols, posTable, pv

vars == <<present, pc, runS, runE, cash, posKeys, posVal, tsDict,
          posHist, cashHist, tradeLog, idx, barTs, currentTs,
          barCalls, execLog, rowTrades, cols, posTable, pv>>

ZeroPos == [s \in Symbols |-> 0]

Init ==
  /\ present \in DataTables
  /\ pc = "idle"
  /\ runS = -1 /\ runE = -1
  /\ cash = 0 /\ posKeys = {} /\ posVal = ZeroPos /\ tsDict = -1
  /\ posHist = <<>> /\ cashHist = <<>> /\ tradeLog = <<>>
  /\ idx = -1 /\ barTs = -1 /\ currentTs = -1
  /\ barCalls = <<>> /\ execLog = <<>> /\ rowTrades = <<>>
  /\ cols = {} /\ posTable = <<>> /\ pv = <<>>

LoopEndBug(e) == e - 2

\* end_idx = self.timestamps.get_loc(backtest_period[-1]) - 1
LoopEnd(e) == e - 1

BarTsOfBug(i) == PyIdx(i + 1)

\* bar_ts = self.timestamps[idx]
BarTsOf(i) == PyIdx(i)

CurrentTsOfBug(i) == PyIdx(i)

\* self.current_ts = self.timestamps[idx + 1]
CurrentTsOf(i) == PyIdx(i + 1)

\* run, lines 55-65: resolve the window, reset the state, seed rows
Run ==
  /\ pc = "idle"
  /\ \E s \in Timestamps, e \in Timestamps :
       /\ s <= e
       /\ LET startTs == PyIdx(s - 1) IN
          /\ runS' = s /\ runE' = e
          /\ idx' = s - 1
          /\ cash' = Capital
          /\ posKeys' = {} /\ posVal' = ZeroPos
          /\ tsDict' = startTs
          /\ posHist' = << [ts |-> startTs, keys |-> {}, val |-> ZeroPos] >>
          /\ cashHist' = << [ts |-> startTs, cash |-> Capital] >>
          /\ tradeLog' = <<>>
          /\ rowTrades' = <<0>>
          /\ execLog' = <<>> /\ barCalls' = <<>>
          /\ pc' = "step"
  /\ UNCHANGED <<present, barTs, currentTs, cols, posTable, pv>>

\* run, lines 67-73: start of an iteration; on_init on the first one,
\* otherwise on_bar(self.data.loc[bar_ts], bar_ts)
Step ==
  /\ pc = "step"
  /\ idx <= LoopEnd(runE)
  /\ barTs' = BarTsOf(idx)
  /\ currentTs' = CurrentTsOf(idx)
  /\ IF idx = runS - 1
       THEN /\ pc' = "init" /\ UNCHANGED barCalls
       ELSE /\ pc' = "bar"
            /\ barCalls' = Append(barCalls,
                 [ts |-> BarTsOf(idx), rows |-> RowsAt(present, BarTsOf(idx))])
  /\ UNCHANGED <<present, runS, runE, cash, posKeys, posVal, tsDict,
                 posHist, cashHist, tradeLog, idx, execLog, rowTrades,
                 cols, posTable, pv>>

\* on_init returns; line 73 calls on_bar
EndInit ==
  /\ pc = "init"
  /\ pc' = "bar"
  /\ barCalls' = Append(barCalls, [ts |-> barTs, rows |-> RowsAt(present, barTs)])
  /\ UNCHANGED <<present, runS, runE, cash, posKeys, posVal, tsDict,
                 posHist, cashHist, tradeLog, idx, barTs, currentTs,
                 execLog, rowTrades, cols, posTable, pv>>

NewKeysBug(keys, sym, q) == IF q = 0 THEN keys ELSE keys \cup {sym}

\* keys of self.positions after trade (line 91-94)
NewKeys(keys, sym, q) == keys \cup {sym}

ChargeBug(q, t, s) == q * Close(t, s)

\* qty * self.current_prices.loc[symbol]
Charge(q, t, s) == q * Open(t, s)

\* trade(symbol, qty), lines 90-96, called from on_init or on_bar
Trade ==
  /\ pc \in {"init", "bar"}
  /\ Len(execLog) < MaxTrades
  /\ \E sym \in Symbols, q \in Quantities :
       /\ posKeys' = NewKeys(posKeys, sym, q)
       /\ posVal' = [posVal EXCEPT ![sym] = IF sym \in posKeys THEN @ + q ELSE q]
       /\ IF sym \in RowsAt(present, currentTs)
            THEN /\ cash' = cash - Charge(q, currentTs, sym)
                 /\ tradeLog' = Append(tradeLog,
                      [timestamp |-> tsDict, symbol |-> sym, qty |-> q])
                 /\ execLog' = Append(execLog,
                      [hook |-> pc, bar |-> barTs, execTs |-> currentTs,
                       price |-> Open(currentTs, sym), symbol |-> sym, qty |-> q])
                 /\ UNCHANGED pc
            ELSE \* current_prices.loc[symbol] raises KeyError
                 /\ pc' = "error"
                 /\ UNCHANGED <<cash, tradeLog, execLog>>
  /\ UNCHANGED <<present, runS, runE, tsDict, posHist, cashHist, idx,
                 barTs, currentTs, barCalls, rowTrades, cols, posTable, pv>>

\* on_bar returns; lines 75-77 record the history rows
EndBar ==
  /\ pc = "bar"
  /\ tsDict' = currentTs
  /\ posHist' = Append(posHist, [ts |-> currentTs, keys |-> posKeys, val |-> posVal])
  /\ cashHist' = Append(cashHist, [ts |-> currentTs, cash |-> cash])
  /\ rowTrades' = Append(rowTrades, Len(execLog))
  /\ idx' = idx + 1
  /\ pc' = "step"
  /\ UNCHANGED <<present, runS, runE, cash, posKeys, posVal, tradeLog,
                 barTs, currentTs, barCalls, execLog, cols, posTable, pv>>

\* .fillna(0) on the position-history frame (line 79)
FillNa(row, s) == IF s \in row.keys THEN row.val[s] ELSE 0

ValueTermBug(t, s, q) == q * Open(t, s)

\* one term of (self.position_history * close_prices) at row timestamp t
ValueTerm(t, s, q) == q * Close(t, s)

\* lines 79-85: assemble the tables, close prices over [start, end] for the
\* position-history columns (unstacked, NaN where a row is missing), and
\* the portfolio value as a NaN-skipping row sum
Assemble ==
  /\ pc = "step"
  /\ idx > LoopEnd(runE)
  /\ LET C == UNION { posHist[i].keys : i \in 1 .. Len(posHist) }
         T == [i \in 1 .. Len(posHist) |-> [s \in C |-> FillNa(posHist[i], s)]]
         Known(t, s) == t \in runS .. runE /\ <<t, s>> \in present
         V == [i \in 1 .. Len(posHist) |->
                 SumSet({s \in C : Known(posHist[i].ts, s)},
                        [s \in C |-> ValueTerm(posHist[i].ts, s, T[i][s])])
                 + cashHist[i].cash]
     IN /\ cols' = C
        /\ posTable' = T
        /\ IF posHist[1].ts \in runS .. runE
             THEN \* seed timestamp repeated in the index: alignment of
                  \* non-unique indexes may raise or produce the sums
                  \/ pc' = "error" /\ UNCHANGED pv
                  \/ pc' = "done" /\ pv' = V
             ELSE pc' = "done" /\ pv' = V
  /\ UNCHANGED <<present, runS, runE, cash, posKeys, posVal, tsDict,
                 posHist, cashHist, tradeLog, idx, barTs, currentTs,
                 barCalls, execLog, rowTrades>>

Next == Run \/ Step \/ EndInit \/ Trade \/ EndBar \/ Assemble

Spec == Init /\ [][Next]_vars

\* ================================================================ properties

Window == IF runS < 0 THEN {} ELSE runS .. runE
N == runE - runS + 1

\* C1: every trade issued inside on_bar(bar, T) is charged the open of the
\* timestamp right after T in the data table.
NoLookAhead ==
  \A i \in 1 .. Len(execLog) :
     execLog[i].hook = "bar" =>
        /\ execLog[i].bar + 1 \in Timestamps
        /\ execLog[i].execTs = execLog[i].bar + 1
        /\ execLog[i].price = Open(execLog[i].bar + 1, execLog[i].symbol)

\* C2: a run over a window of N timestamps has N+1 position-history and
\* cash-history rows: the seed row, then one per window timestamp in order.
HistoryCompleteness ==
  pc = "done" =>
    /\ Len(posHist) = N + 1
    /\ Len(cashHist) = N + 1
    /\ Len(posTable) = N + 1
    /\ \A i \in 2 .. N + 1 : posHist[i].ts = runS + i - 2 /\ cashHist[i].ts = runS + i - 2
    /\ runS > 0 => posHist[1].ts = runS - 1 /\ cashHist[1].ts = runS - 1

HistoryCompletenessWitness ==
  pc = "done" /\ runS > 0 /\ runS = runE

\* C3 (as stated): on_bar is called once per window timestamp T, ascending,
\* with rowsAt(T) and T.
OnBarPerWindowTs ==
  pc = "done" =>
    /\ Len(barCalls) = N
    /\ \A i \in 1 .. N : barCalls[i].ts = runS + i - 1
                        /\ barCalls[i].rows = RowsAt(present, runS + i - 1)

\* C3 (amended): on_bar is called once per window timestamp, ascending,
\* each time with the timestamp immediately before it (Python index
\* start_idx + i, which wraps to the last timestamp when start is the
\* first one) and that timestamp's rows.
OnBarPrecedingTs ==
  pc = "done" =>
    /\ Len(barCalls) = N
    /\ \A i \in 1 .. N : barCalls[i].ts = PyIdx(runS + i - 2)
                        /\ barCalls[i].rows = RowsAt(present, PyIdx(runS + i - 2))

OnBarPrecedingTsWitness ==
  pc = "done" /\ runS > 0 /\ runE > runS

\* C4: the concrete scenario: one symbol X with open = close = 10..13,
\* capital 1000, start = t1, end = t2, a strategy trading +5 X on every
\* on_bar call; expected seed row (t0, 1000, no position), (t1, 945, X=5),
\* (t2, 885, X=10), portfolio value 1005 at t2.
ScenarioCase ==
  /\ pc = "done"
  /\ present = {<<t, "X">> : t \in Timestamps}
  /\ runS = 1 /\ runE = 2
  /\ Len(execLog) = Len(barCalls)
  /\ \A i \in 1 .. Len(execLog) :
        /\ execLog[i].hook = "bar" /\ execLog[i].bar = barCalls[i].ts
        /\ execLog[i].symbol = "X" /\ execLog[i].qty = 5

ConcreteScenario ==
  ScenarioCase =>
    /\ cashHist = << [ts |-> 0, cash |-> 1000], [ts |-> 1, cash |-> 945],
                    [ts |-> 2, cash |-> 885] >>
    /\ posTable = << [s \in {"X"} |-> 0], [s \in {"X"} |-> 5], [s \in {"X"} |-> 10] >>
    /\ posHist[3].ts = 2
    /\ pv[3] = 1005

\* C5: cash is capital minus the sum of qty * open(symbol, execution ts)
\* over the executed trades; each cash-history row is that sum over the
\* trades executed before the row was recorded.
CashOf(k) ==
  Capital - SumSet(1 .. k, [j \in 1 .. k |->
                     execLog[j].qty * Open(execLog[j].execTs, execLog[j].symbol)])

CashConservation ==
  runS >= 0 =>
    /\ (pc # "error" => cash = CashOf(Len(execLog)))
    /\ \A i \in 1 .. Len(cashHist) : cashHist[i].cash = CashOf(rowTrades[i])

CashConservationWitness ==
  pc = "done" /\ Len(execLog) = 2
  /\ \E j \in 1 .. 2 : execLog[j].qty # 0

\* C6: the trade log entry of each trade carries the execution timestamp
\* (currentTimestamp), the symbol and the quantity, in call order.
TradeLogTimestamp ==
  /\ Len(tradeLog) = Len(execLog)
  /\ \A i \in 1 .. Len(tradeLog) :
        /\ tradeLog[i].timestamp = execLog[i].execTs
        /\ tradeLog[i].symbol = execLog[i].symbol
        /\ tradeLog[i].qty = execLog[i].qty

\* C7: with no timestamp before the first window timestamp, run fails
\* before any state mutation and before any hook runs.
InsufficientLookback ==
  (pc # "idle" /\ runS = 0) =>
    /\ pc = "error"
    /\ posHist = <<>> /\ barCalls = <<>> /\ execLog = <<>>

\* C8: every symbol passed to trade is a position-history column, and
\* every row holds the net quantity traded so far (0 before the first
\* trade of that symbol).
TradedSyms == { execLog[j].symbol : j \in 1 .. Len(execLog) }
NetQty(s, k) == SumSet(1 .. k, [j \in 1 .. k |->
                   IF execLog[j].symbol = s THEN execLog[j].qty ELSE 0])

ZeroFill ==
  pc = "done" =>
    /\ cols = TradedSyms
    /\ \A i \in 1 .. Len(posTable) :
          /\ DOMAIN posTable[i] = cols
          /\ \A s \in cols : posTable[i][s] = NetQty(s, rowTrades[i])

ZeroFillWitness ==
  pc = "done" /\ \E j \in 1 .. Len(execLog) : execLog[j].qty = 0 /\ rowTrades[2] = 0

\* C9: portfolio value = cash + sum of position * close at every output
\* timestamp whose close prices exist.
ValuationIdentity ==
  pc = "done" =>
    \A i \in 1 .. Len(posTable) :
       (\A s \in cols : <<posHist[i].ts, s>> \in present) =>
          pv[i] = cashHist[i].cash
                  + SumSet(cols, [s \in cols |-> posTable[i][s] * Close(posHist[i].ts, s)])

ValuationIdentityWitness ==
  pc = "done" /\ \E i \in 1 .. Len(posTable) : \E s \in cols :
     posTable[i][s] # 0 /\ s = "Y" /\ \A u \in cols : <<posHist[i].ts, u>> \in present

\* C10: a run whose position-history symbols lack a close row at some
\* timestamp of [start, end] does not complete with a value series.
MissingDataFails ==
  pc = "done" => \A t \in Window, s \in cols : <<t, s>> \in present

====
